---- MODULE Spec2Model ----
(***************************************************************************)
(* Model of src/index.ts of typedoc-monorepo-link-types: the Reference     *)
(* Collector (discoverMissingExports) and the Resolution Driver            *)
(* (onResolveBegin), together with the creation hook registered by load.   *)
(*                                                                         *)
(* The documentation tree is a function from reflection ids to records     *)
(* that carry the fields the Collector reads.  The typedoc Context the     *)
(* Driver calls into (findReflectionByName, getChildrenByKind,             *)
(* createDeclarationReflection, registerReflection, convertSymbol,         *)
(* removeReflection, setActiveProgram) is modelled at each call site.      *)
(***************************************************************************)
EXTENDS Integers, Sequences, FiniteSets, TLC

(* ------------------------------ bounds --------------------------------- *)

\* Total number of type references held by the exported functions' parameters
\* in the converted project.
MaxRefs == 2

\* Number of times EVENT_RESOLVE_BEGIN is delivered over the same tree.
MaxRuns == 2

(* --------------------------- input universe ---------------------------- *)

\* ts.Symbol identities (compared by identity, never by name).
Symbols == {"sDef", "sT", "sN", "sU", "sV", "sU2", "sTB"}

\* m.name of each ts.Symbol.  sU and sU2 are distinct symbols sharing a name;
\* sT is a second program's symbol for the declaration documented from sTB.
SymName(s) ==
  CASE s = "sDef" -> "default"
    [] s = "sT"   -> "T"
    [] s = "sTB"  -> "T"
    [] s = "sN"   -> "N"
    [] s = "sU"   -> "U"
    [] s = "sU2"  -> "U"
    [] s = "sV"   -> "V"

\* Symbols referenced by the members of the declaration a symbol converts to.
SymRefs(s) ==
  CASE s = "sU" -> <<"sV", "sDef">>
    [] s = "sV" -> <<"sU", "sN">>
    [] OTHER    -> <<>>

\* ts.Program values; NoProgram is JavaScript's undefined.
NoProgram == "undefined"

ProgramOf(modId) == IF modId = 1 THEN "progP" ELSE IF modId = 2 THEN "progA" ELSE "progB"

\* Option 'internalNamespace' (default value).
internalNamespace == "internal"

(* ------------------------------ types ---------------------------------- *)

NoType == [tag |-> "none"]

RefType(s) == [tag |-> "reference", sym |-> s]

ReflType(id) == [tag |-> "reflection", decl |-> id]

ArrType(t) == [tag |-> "array", elem |-> t]

(* --------------------------- reflections ------------------------------- *)

\* A reflection with every optional field absent.
Blank(cls, kind, name, parent) ==
  [cls |-> cls, kind |-> kind, name |-> name, parent |-> parent,
   children |-> <<>>, type |-> NoType, typeParameters |-> <<>>,
   signatures |-> <<>>, indexSignature |-> <<>>, getSignature |-> <<>>,
   setSignature |-> <<>>, overwrites |-> NoType, inheritedFrom |-> NoType,
   implementationOf |-> NoType, extendedTypes |-> <<>>,
   implementedTypes |-> <<>>, extendedBy |-> <<>>, implementedBy |-> <<>>,
   parameters |-> <<>>, default |-> NoType]

\* current instanceof ContainerReflection
IsContainer(r) == r.cls \in {"Project", "Declaration"}

\* current instanceof DeclarationReflection
IsDeclaration(r) == r.cls = "Declaration"

\* current instanceof SignatureReflection
IsSignature(r) == r.cls = "Signature"

\* current instanceof ParameterReflection
IsParameter(r) == r.cls = "Parameter"

\* current instanceof TypeParameterReflection
IsTypeParameter(r) == r.cls = "TypeParameter"

(* ------------------------- sequence helpers ---------------------------- *)

Range(q) == {q[i] : i \in 1..Len(q)}

\* Set.add on an insertion-ordered Set held as a duplicate-free sequence.
\* Variant of SetAdd: an array push, the element is appended every time.
PushAlways(q, x) == Append(q, x)

SetAdd(q, x) == IF x \in Range(q) THEN q ELSE Append(q, x)

RECURSIVE SetAddAll(_, _)
SetAddAll(q, xs) ==
  IF xs = <<>> THEN q ELSE SetAddAll(SetAdd(q, Head(xs)), Tail(xs))

\* Set.delete of every member of a set, keeping insertion order.
RECURSIVE SetDeleteAll(_, _)
SetDeleteAll(q, del) ==
  IF q = <<>> THEN <<>>
  ELSE IF Head(q) \in del THEN SetDeleteAll(Tail(q), del)
       ELSE <<Head(q)>> \o SetDeleteAll(Tail(q), del)

\* Array removal of the first occurrence of x (indexOf + splice).
RECURSIVE RemoveFromSeq(_, _)
RemoveFromSeq(q, x) ==
  IF q = <<>> THEN <<>>
  ELSE IF Head(q) = x THEN Tail(q)
       ELSE <<Head(q)>> \o RemoveFromSeq(Tail(q), x)

(* --------------------------- the Collector ----------------------------- *)

\* project.reflections: the reflections registered in the project; the
\* project itself (id 1) is not one of them.
Registered(refl) == DOMAIN refl \ {1}

\* ReferenceType.reflection: the registered reflection bound to the
\* reference's symbol, 0 (undefined) when there is none.
TypeReflection(refl, smap, t) ==
  IF smap[t.sym] \in Registered(refl) THEN smap[t.sym] ELSE 0

\* type.visit(visitor) with the recursive visitor of discoverMissingExports:
\* the symbols added to 'missing' and the reflections pushed onto 'queue'.
RECURSIVE VisitType(_, _, _)
VisitType(refl, smap, t) ==
  CASE t.tag = "reference" ->
         IF TypeReflection(refl, smap, t) = 0
         THEN [syms |-> <<t.sym>>, decls |-> <<>>]
         ELSE [syms |-> <<>>, decls |-> <<>>]
    [] t.tag = "reflection" -> [syms |-> <<>>, decls |-> <<t.decl>>]
    [] t.tag = "array" -> VisitType(refl, smap, t.elem)
    [] OTHER -> [syms |-> <<>>, decls |-> <<>>]

Visit(t) == [op |-> "visit", t |-> t]

Add(ids) == [op |-> "add", ids |-> ids]

\* forEach((type) => type.visit(visitor))
VisitEach(ts) == [i \in 1..Len(ts) |-> Visit(ts[i])]

\* Variant of StepsFor: the back references extendedBy and implementedBy of
\* a declaration are visited as well.
StepsForBackEdges(r) ==
  (IF IsContainer(r) THEN <<Add(r.children)>> ELSE <<>>)
  \o (IF IsDeclaration(r)
      THEN <<Visit(r.type), Add(r.typeParameters), Add(r.signatures),
             Add(r.indexSignature), Add(r.getSignature), Add(r.setSignature),
             Visit(r.overwrites), Visit(r.inheritedFrom),
             Visit(r.implementationOf)>>
           \o VisitEach(r.extendedTypes) \o VisitEach(r.extendedBy)
           \o VisitEach(r.implementedTypes) \o VisitEach(r.implementedBy)
      ELSE <<>>)
  \o (IF IsSignature(r)
      THEN <<Add(r.parameters), Add(r.typeParameters), Visit(r.type),
             Visit(r.overwrites), Visit(r.inheritedFrom),
             Visit(r.implementationOf)>>
      ELSE <<>>)
  \o (IF IsParameter(r) THEN <<Visit(r.type)>> ELSE <<>>)
  \o (IF IsTypeParameter(r) THEN <<Visit(r.type), Visit(r.default)>> ELSE <<>>)

\* The visits and queue additions one iteration of the do/while performs
\* for 'current', in source order.
StepsFor(r) ==
  (IF IsContainer(r) THEN <<Add(r.children)>> ELSE <<>>)
  \o (IF IsDeclaration(r)
      THEN <<Visit(r.type), Add(r.typeParameters), Add(r.signatures),
             Add(r.indexSignature), Add(r.getSignature), Add(r.setSignature),
             Visit(r.overwrites), Visit(r.inheritedFrom),
             Visit(r.implementationOf)>>
           \o VisitEach(r.extendedTypes) \o VisitEach(r.implementedTypes)
      ELSE <<>>)
  \o (IF IsSignature(r)
      THEN <<Add(r.parameters), Add(r.typeParameters), Visit(r.type),
             Visit(r.overwrites), Visit(r.inheritedFrom),
             Visit(r.implementationOf)>>
      ELSE <<>>)
  \o (IF IsParameter(r) THEN <<Visit(r.type)>> ELSE <<>>)
  \o (IF IsTypeParameter(r) THEN <<Visit(r.type), Visit(r.default)>> ELSE <<>>)

\* Runs the steps of one iteration over the (queue, missing) pair.
RECURSIVE RunSteps(_, _, _, _)
RunSteps(refl, smap, steps, st) ==
  IF steps = <<>> THEN st
  ELSE LET s == Head(steps)
           nx == IF s.op = "add"
                 THEN [queue |-> st.queue \o s.ids, missing |-> st.missing]
                 ELSE LET v == VisitType(refl, smap, s.t)
                      IN [queue |-> st.queue \o v.decls,
                          missing |-> SetAddAll(st.missing, v.syms)]
       IN RunSteps(refl, smap, Tail(steps), nx)

\* do { ... } while ((current = queue.shift()))
RECURSIVE Walk(_, _, _, _)
Walk(refl, smap, current, st) ==
  LET after == RunSteps(refl, smap, StepsFor(refl[current]), st)
  IN IF after.queue = <<>> THEN after.missing
     ELSE Walk(refl, smap, Head(after.queue),
               [queue |-> Tail(after.queue), missing |-> after.missing])

\* The Set returned by discoverMissingExports(root), in insertion order.
discoverMissingExports(refl, smap, root) ==
  Walk(refl, smap, root, [queue |-> <<>>, missing |-> <<>>])

(* ------------------------ the converted project ------------------------ *)

\* Shape of the type of the j-th parameter of the function whose parameter
\* ids start after 'base': f takes (p: S, p: { x: S }, p: S[], ..) and
\* g takes (p: S[], p: S, ..).
ParamShape(base, j) ==
  IF base = 10
  THEN (IF j = 1 THEN "reference" ELSE IF j = 2 THEN "inline" ELSE "array")
  ELSE (IF j = 1 THEN "array" ELSE "reference")

\* Type of the j-th parameter of an exported function: a plain reference,
\* an inline object type { x: S }, or an array S[].
ParamType(base, j, s) ==
  CASE ParamShape(base, j) = "reference" -> RefType(s)
    [] ParamShape(base, j) = "inline" -> ReflType(base + 10 + j)
    [] ParamShape(base, j) = "array" -> ArrType(RefType(s))

\* Reflections of one exported function fn(p1: .., p2: .., ..) declared in
\* 'owner': the function, its call signature, its parameters and the type
\* literals of inline parameter types.  Parameter j has id base + j.
FunctionReflections(fnId, sigId, base, owner, name, refs) ==
  LET inline == {j \in 1..Len(refs) : ParamShape(base, j) = "inline"}
  IN [i \in {fnId} |->
        [Blank("Declaration", "Function", name, owner) EXCEPT !.signatures = <<sigId>>]]
     @@ [i \in {sigId} |->
        [Blank("Signature", "CallSignature", name, fnId) EXCEPT
           !.parameters = [j \in 1..Len(refs) |-> base + j],
           !.type = RefType("sTB")]]
     @@ [i \in {base + j : j \in 1..Len(refs)} |->
        [Blank("Parameter", "Parameter", "p", sigId) EXCEPT
           !.type = ParamType(base, i - base, refs[i - base])]]
     @@ [i \in {base + 10 + j : j \in inline} |->
        [Blank("Declaration", "TypeLiteral", "__type", i - 10) EXCEPT
           !.children = <<i + 10>>]]
     @@ [i \in {base + 20 + j : j \in inline} |->
        [Blank("Declaration", "Property", "x", i - 10) EXCEPT
           !.type = RefType(refs[i - base - 20])]]

\* Interface T, and namespace ns holding interface N extends T, declared in
\* 'owner'.  T carries the back references: extended by N, implemented by
\* the undocumented class V.
DocumentedReflections(owner) ==
  [i \in {40} |->
     [Blank("Declaration", "Interface", "T", owner) EXCEPT
        !.extendedBy = <<RefType("sN")>>,
        !.implementedBy = <<RefType("sV")>>]]
  @@ [i \in {41} |->
     [Blank("Declaration", "Namespace", "ns", owner) EXCEPT !.children = <<42>>]]
  @@ [i \in {42} |->
     [Blank("Declaration", "Interface", "N", 41) EXCEPT
        !.extendedTypes = <<RefType("sTB")>>]]

\* The tree the conversion pipeline hands to EVENT_RESOLVE_BEGIN: either a
\* project with modules A (function f) and B (T, ns.N, function g), or a
\* single-entry-point project holding f, T and ns.N directly.
InitialTree(withModules, refsA, refsB) ==
  IF withModules
  THEN [i \in {1} |->
          [Blank("Project", "Project", "proj", 0) EXCEPT !.children = <<2, 3>>]]
       @@ [i \in {2} |->
          [Blank("Declaration", "Module", "A", 1) EXCEPT !.children = <<4>>]]
       @@ [i \in {3} |->
          [Blank("Declaration", "Module", "B", 1) EXCEPT !.children = <<40, 41, 43>>]]
       @@ FunctionReflections(4, 5, 10, 2, "f", refsA)
       @@ DocumentedReflections(3)
       @@ FunctionReflections(43, 44, 50, 3, "g", refsB)
  ELSE [i \in {1} |->
          [Blank("Project", "Project", "proj", 0) EXCEPT !.children = <<4, 40, 41>>]]
       @@ FunctionReflections(4, 5, 10, 1, "f", refsA)
       @@ DocumentedReflections(1)

\* Symbol-to-reflection bindings registered by the conversion pipeline.
InitialSymbolMap == [s \in Symbols |-> IF s = "sTB" THEN 40 ELSE 0]

\* Symbols the conversion pipeline registered for the reflections the
\* bindings 'smap' lead to.
RegisteredSymbols(smap) ==
  [i \in {smap[s] : s \in Symbols} \ {0} |-> CHOOSE s \in Symbols : smap[s] = i]

InitialSymbolOf == RegisteredSymbols(InitialSymbolMap)

\* First reflection id the Driver's own creations receive.
FirstFreeId == 100

\* EVENT_CREATE_DECLARATION deliveries of the conversion phase, one per
\* declaration: the scope it was created in and the program converting it.
InitialEvents(withModules) ==
  IF withModules
  THEN <<[scope |-> 2, program |-> ProgramOf(2)],
         [scope |-> 3, program |-> ProgramOf(3)],
         [scope |-> 3, program |-> ProgramOf(3)],
         [scope |-> 41, program |-> ProgramOf(3)],
         [scope |-> 3, program |-> ProgramOf(3)]>>
  ELSE <<[scope |-> 1, program |-> ProgramOf(1)],
         [scope |-> 1, program |-> ProgramOf(1)],
         [scope |-> 1, program |-> ProgramOf(1)],
         [scope |-> 41, program |-> ProgramOf(1)]>>

\* The parameter references of one function: any sequence of at most n
\* symbols (the same symbol may be referenced by several parameters).
RefSeqs(n) == UNION {[1..k -> Symbols] : k \in 0..n}

(* ----------------------- the typedoc Context --------------------------- *)

Min(S) == CHOOSE x \in S : \A y \in S : x <= y

\* Variant of findReflectionByName: only the direct children of the project
\* and of its modules are searched.
findTopLevelByName(refl, name) ==
  LET hits == {i \in Registered(refl) :
                 /\ refl[i].name = name
                 /\ refl[i].parent # 0
                 /\ refl[refl[i].parent].kind \in {"Project", "Module"}}
  IN IF hits = {} THEN 0 ELSE Min(hits)

\* context.scope.findReflectionByName(name): the first registered reflection
\* of that name anywhere in the project, 0 when there is none.
findReflectionByName(refl, name) ==
  LET hits == {i \in Registered(refl) : refl[i].name = name}
  IN IF hits = {} THEN 0 ELSE Min(hits)

\* container.getChildrenByKind(kind)
getChildrenByKind(refl, id, kind) ==
  SelectSeq(refl[id].children, LAMBDA c : refl[c].kind = kind)

\* Variant of ModulesOf: the project is pushed whether or not it has
\* module children.
ModulesWithProject(refl) == getChildrenByKind(refl, 1, "Module") \o <<1>>

\* The 'modules' array of onResolveBegin.
ModulesOf(refl) ==
  LET mods == getChildrenByKind(refl, 1, "Module")
  IN IF Len(mods) = 0 THEN <<1>> ELSE mods

\* getModule(ref): the first module one of whose direct children of ref's
\* kind has ref's id; 0 when modules.find returns undefined.
getModule(refl, mods, ref) ==
  LET owners == {k \in 1..Len(mods) :
                   ref \in Range(getChildrenByKind(refl, mods[k], refl[ref].kind))}
  IN IF owners = {} THEN 0 ELSE mods[Min(owners)]

\* The creation hook of load: records the converting program of every
\* declaration created directly under the project or a module.
CreateDeclarationHook(kp, refl, scope, program) ==
  IF refl[scope].kind \in {"Project", "Module"}
  THEN [i \in DOMAIN kp \cup {scope} |-> IF i = scope THEN program ELSE kp[i]]
  ELSE kp

\* Variant of KnownProgram: the program recorded first is used for every
\* module.
FirstKnownProgram(kp, mod) ==
  IF DOMAIN kp = {} THEN NoProgram ELSE kp[Min(DOMAIN kp)]

\* knownPrograms.get(mod)
KnownProgram(kp, mod) == IF mod \in DOMAIN kp THEN kp[mod] ELSE NoProgram

\* project.registerReflection(ref, symbol): binds the symbol unless bound.
RegisterSymbol(smap, s, ref) ==
  IF smap[s] = 0 THEN [smap EXCEPT ![s] = ref] ELSE smap

\* project.registerReflection(ref, symbol): records the symbol as the one
\* registered for the reflection, replacing an earlier one.
RegisterReflection(rev, s, ref) ==
  [i \in DOMAIN rev \cup {ref} |-> IF i = ref THEN s ELSE rev[i]]

\* reflection.traverse(callback): the reflections one traversal step
\* reaches, by class.  A type is followed only when it is itself an inline
\* reflection type, not when one is nested in an array.
Traversed(r) ==
  (IF IsContainer(r) THEN Range(r.children) ELSE {})
  \cup (IF IsDeclaration(r)
        THEN Range(r.typeParameters) \cup Range(r.signatures)
               \cup Range(r.indexSignature) \cup Range(r.getSignature)
               \cup Range(r.setSignature)
        ELSE {})
  \cup (IF IsSignature(r)
        THEN Range(r.typeParameters) \cup Range(r.parameters)
        ELSE {})
  \cup (IF (IsDeclaration(r) \/ IsSignature(r) \/ IsParameter(r))
           /\ r.type.tag = "reflection"
        THEN {r.type.decl}
        ELSE {})

\* The reflections removeReflection deletes for 'ids': those reached by
\* repeated traversal, 'ids' included.
RECURSIVE Subtree(_, _)
Subtree(refl, ids) ==
  LET more == (UNION {Traversed(refl[i]) : i \in ids} \cap DOMAIN refl) \ ids
  IN IF more = {} THEN ids ELSE Subtree(refl, ids \cup more)

\* parent.traverse(..) of removeReflection: the parent drops the first link
\* to 'id' its traversal meets, in traversal order: type parameters, an
\* inline type, signatures, index, get and set signature, parameters,
\* children.
Unlink(r, id) ==
  IF (IsDeclaration(r) \/ IsSignature(r)) /\ id \in Range(r.typeParameters)
       /\ ~(IsSignature(r) /\ r.type = ReflType(id))
  THEN [r EXCEPT !.typeParameters = RemoveFromSeq(@, id)]
  ELSE IF (IsDeclaration(r) \/ IsSignature(r) \/ IsParameter(r))
            /\ r.type = ReflType(id)
  THEN [r EXCEPT !.type = NoType]
  ELSE IF IsDeclaration(r) /\ id \in Range(r.signatures)
  THEN [r EXCEPT !.signatures = RemoveFromSeq(@, id)]
  ELSE IF IsDeclaration(r) /\ id \in Range(r.indexSignature)
  THEN [r EXCEPT !.indexSignature = RemoveFromSeq(@, id)]
  ELSE IF IsDeclaration(r) /\ id \in Range(r.getSignature)
  THEN [r EXCEPT !.getSignature = RemoveFromSeq(@, id)]
  ELSE IF IsDeclaration(r) /\ id \in Range(r.setSignature)
  THEN [r EXCEPT !.setSignature = RemoveFromSeq(@, id)]
  ELSE IF IsSignature(r) /\ id \in Range(r.parameters)
  THEN [r EXCEPT !.parameters = RemoveFromSeq(@, id)]
  ELSE IF IsContainer(r) /\ id \in Range(r.children)
  THEN [r EXCEPT !.children = RemoveFromSeq(@, id)]
  ELSE r

\* context.project.removeReflection(reflection): tree part.
RemoveReflection(refl, id) ==
  LET gone == Subtree(refl, {id})
      p == refl[id].parent
  IN [i \in DOMAIN refl \ gone |->
        IF i = p THEN Unlink(refl[i], id) ELSE refl[i]]

\* The symbol map after removeReflection(id): for each removed reflection,
\* the symbol registered for it loses its binding when the binding is to
\* that reflection.  Other bindings stay.
RemoveBindings(refl, smap, rev, id) ==
  LET gone == Subtree(refl, {id}) \cap DOMAIN rev
  IN [s \in Symbols |->
        IF \E g \in gone : rev[g] = s /\ smap[s] = g THEN 0 ELSE smap[s]]

\* The registered symbols after removeReflection(id): those of the removed
\* reflections are forgotten.
ForgetSymbols(refl, rev, id) ==
  [i \in DOMAIN rev \ Subtree(refl, {id}) |-> rev[i]]

\* context.withScope(scope).createDeclarationReflection(Namespace, .., name):
\* a new namespace under 'scope', registered in the project.
CreateNamespace(refl, id, scope, name) ==
  [i \in DOMAIN refl \cup {id} |->
     IF i = id THEN Blank("Declaration", "Namespace", name, scope)
     ELSE IF i = scope THEN [refl[i] EXCEPT !.children = Append(refl[i].children, id)]
     ELSE refl[i]]

\* internalContext.converter.convertSymbol(internalContext, m): the
\* declaration of m, with one property per symbol its members reference,
\* created under the internal namespace 'ns'.
ConvertSymbol(refl, id, ns, m) ==
  LET refs == SymRefs(m)
  IN [i \in DOMAIN refl \cup (id..(id + Len(refs))) |->
        IF i = id
        THEN [Blank("Declaration", "Interface", SymName(m), ns) EXCEPT
                !.children = [k \in 1..Len(refs) |-> id + k]]
        ELSE IF i \in (id + 1)..(id + Len(refs))
        THEN [Blank("Declaration", "Property", "x", id) EXCEPT
                !.type = RefType(refs[i - id])]
        ELSE IF i = ns THEN [refl[i] EXCEPT !.children = Append(refl[i].children, id)]
        ELSE refl[i]]

(* ------------------------------- state --------------------------------- *)

VARIABLES
  reflections,      \* project.reflections: id -> reflection (the tree)
  symbolMap,        \* project's symbol -> reflection id bindings (0: none)
  nextId,           \* id of the next reflection created
  knownPrograms,    \* the knownPrograms Map of load
  activeProgram,    \* context.program as set by setActiveProgram
  noMissingExports, \* option 'noMissingExports'
  events,           \* EVENT_CREATE_DECLARATION deliveries still to come
  pc,               \* position: "convert", "module", "round", "prune", "done"
  run,              \* number of EVENT_RESOLVE_BEGIN deliveries so far
  modules,          \* the 'modules' array
  mi,               \* index of 'mod' in 'modules' (the for-of position)
  missing,          \* the 'missing' Set, in insertion order
  idx,              \* position of 'm' in the iteration over 'missing'
  tried,            \* the 'tried' Set
  internalContext,  \* reflection of the memoised internalContext (0: unset)
  nsLog,            \* history: createDeclarationReflection calls for namespaces
  convLog,          \* history: convertSymbol calls
  regLog,           \* history: registerReflection calls
  removedLog,       \* history: removeReflection calls
  cleanAfterRun,    \* history: no module had a missing symbol when the last run ended
  collector,        \* locals and results of discoverMissingExports calls run
                    \* step by step (CollectorSpec); idle in the Driver's runs
  symbolOf          \* project's reflection id -> symbol registered for it

vars == <<reflections, symbolMap, nextId, knownPrograms, activeProgram,
          noMissingExports, events, pc, run, modules, mi, missing, idx, tried,
          internalContext, nsLog, convLog, regLog, removedLog, cleanAfterRun,
          collector, symbolOf>>

treeVars == <<reflections, symbolMap, nextId>>

logVars == <<nsLog, convLog, regLog, removedLog>>

\* No discoverMissingExports call is being stepped through.
IdleCollector ==
  [phase |-> "idle", root |-> 0, current |-> 0, queue |-> <<>>,
   missing |-> <<>>, results |-> <<>>]

loopVars == <<missing, idx, tried, internalContext>>

Init ==
  /\ \E withModules \in BOOLEAN :
       \E refsA \in RefSeqs(MaxRefs) :
         \E refsB \in RefSeqs(MaxRefs) :
           /\ Len(refsA) + Len(refsB) <= MaxRefs
           /\ withModules \/ refsB = <<>>
           /\ reflections = InitialTree(withModules, refsA, refsB)
           /\ events = InitialEvents(withModules)
  /\ symbolMap = InitialSymbolMap
  /\ nextId = FirstFreeId
  /\ knownPrograms = <<>>
  /\ activeProgram = NoProgram
  /\ noMissingExports \in BOOLEAN
  /\ pc = "convert"
  /\ run = 0
  /\ modules = <<>>
  /\ mi = 0
  /\ missing = <<>>
  /\ idx = 0
  /\ tried = {}
  /\ internalContext = 0
  /\ nsLog = <<>>
  /\ convLog = <<>>
  /\ regLog = <<>>
  /\ removedLog = <<>>
  /\ cleanAfterRun = FALSE
  /\ collector = IdleCollector
  /\ symbolOf = InitialSymbolOf

(* ------------------------- Driver building blocks ---------------------- *)

\* Variant of ShouldSkipModule: the empty-set test is missing.
NeverSkipModule(ms) == FALSE

\* if (missing.size === 0) continue;
ShouldSkipModule(ms) == ms = <<>>

\* Variant of IsDefaultExport: the reserved name is not tested.
NeverDefaultExport(m) == FALSE

\* if (m.name === 'default') continue;
IsDefaultExport(m) == SymName(m) = "default"

\* Variant of SubtractTried: tried symbols are left in the candidate set.
SubtractNothing(ms, tr) == ms

\* Variant of SubtractTried: the candidate set is cleared.
SubtractAll(ms, tr) == <<>>

\* for (const s of tried) missing.delete(s);
SubtractTried(ms, tr) == SetDeleteAll(ms, tr)

\* Variant of ShouldPrune: an empty namespace is kept.
NeverPrune(refl, ns) == FALSE

\* Variant of ShouldPrune: the namespace is removed whatever it holds.
AlwaysPrune(refl, ns) == TRUE

\* if (!reflection?.children?.length)
ShouldPrune(refl, ns) == Len(refl[ns].children) = 0

\* Variant of HasInternalContext: the memoised context is never reused.
NeverMemoised(ic) == FALSE

\* if (internalContext) return internalContext;
HasInternalContext(ic) == ic # 0

\* context.program read by the creation hook: typedoc's getter asserts that
\* a program is active and throws otherwise.
ProgramGetterThrows(active) == active = NoProgram

\* The part of the state createInternalContext reads and writes; 'threw'
\* tells whether the call ended by an exception.
Ctx == [refl |-> reflections, nextId |-> nextId, kp |-> knownPrograms,
        active |-> activeProgram, ic |-> internalContext, nsLog |-> nsLog,
        threw |-> FALSE]

\* createInternalContext(), called for module 'mod' from source line 'site'.
\* The namespace is created under the module, then finalized with the
\* Driver's context, whose scope is the project: the creation hook reads
\* context.program.  With no program recorded for the module the read
\* throws, after the namespace was added and before it is memoised.
createInternalContext(c, mod, site) ==
  IF HasInternalContext(c.ic) THEN c
  ELSE LET prog == KnownProgram(c.kp, mod)
           refl2 == CreateNamespace(c.refl, c.nextId, mod, internalNamespace)
           log2 == Append(c.nsLog, [run |-> run, mod |-> mod,
                                    ns |-> c.nextId, site |-> site])
       IN IF ProgramGetterThrows(prog)
          THEN [refl |-> refl2,
                nextId |-> c.nextId + 1,
                kp |-> c.kp,
                active |-> prog,
                ic |-> c.ic,
                nsLog |-> log2,
                threw |-> TRUE]
          ELSE [refl |-> refl2,
                nextId |-> c.nextId + 1,
                kp |-> CreateDeclarationHook(c.kp, refl2, 1, prog),
                active |-> prog,
                ic |-> c.nextId,
                nsLog |-> log2,
                threw |-> FALSE]

\* The exception of createInternalContext leaves onResolveBegin: the
\* handler stops where it is, with what the call had done so far.
Abort(c) ==
  /\ reflections' = c.refl
  /\ nextId' = c.nextId
  /\ knownPrograms' = c.kp
  /\ activeProgram' = c.active
  /\ internalContext' = c.ic
  /\ nsLog' = c.nsLog
  /\ pc' = "failed"
  /\ UNCHANGED <<symbolMap, noMissingExports, events, run, modules, mi,
                 missing, idx, convLog, regLog, removedLog, cleanAfterRun, collector,
                 symbolOf>>

\* The module being processed and the symbol the for-of loop is at.
CurMod == modules[mi]

CurSym == missing[idx]

InLoopBody == pc = "round" /\ idx <= Len(missing)

(* ------------------------------ actions -------------------------------- *)

\* app.converter.on(EVENT_CREATE_DECLARATION, ...) during conversion.
OnCreateDeclaration ==
  /\ pc = "convert"
  /\ events # <<>>
  /\ knownPrograms' = CreateDeclarationHook(knownPrograms, reflections,
                                            Head(events).scope, Head(events).program)
  /\ events' = Tail(events)
  /\ UNCHANGED <<treeVars, activeProgram, noMissingExports, pc, run, modules,
                 mi, loopVars, logVars, cleanAfterRun, collector, symbolOf>>

\* onResolveBegin up to the for-of loop over modules.
ResolveBegin ==
  /\ \/ pc = "convert" /\ events = <<>>
     \/ pc = "done"
  /\ run < MaxRuns
  /\ run' = run + 1
  /\ modules' = ModulesOf(reflections)
  /\ mi' = 1
  /\ pc' = "module"
  /\ UNCHANGED <<treeVars, knownPrograms, activeProgram, noMissingExports,
                 events, loopVars, logVars, cleanAfterRun, collector, symbolOf>>

\* A module whose Collector result is empty: continue.
SkipModule ==
  /\ pc = "module"
  /\ mi <= Len(modules)
  /\ ShouldSkipModule(discoverMissingExports(reflections, symbolMap, CurMod))
  /\ mi' = mi + 1
  /\ UNCHANGED <<treeVars, knownPrograms, activeProgram, noMissingExports,
                 events, pc, run, modules, loopVars, logVars, cleanAfterRun, collector,
                 symbolOf>>

\* A module with missing symbols: enter the do/while with a fresh 'tried'.
EnterModule ==
  /\ pc = "module"
  /\ mi <= Len(modules)
  /\ LET ms == discoverMissingExports(reflections, symbolMap, CurMod)
     IN /\ ~ShouldSkipModule(ms)
        /\ missing' = ms
  /\ tried' = {}
  /\ idx' = 1
  /\ internalContext' = 0
  /\ pc' = "round"
  /\ UNCHANGED <<treeVars, knownPrograms, activeProgram, noMissingExports,
                 events, run, modules, mi, logVars, cleanAfterRun, collector, symbolOf>>

\* tried.add(m), common to every branch of the loop body.
MarkTried ==
  /\ tried' = tried \cup {CurSym}
  /\ idx' = idx + 1
  /\ UNCHANGED <<missing, noMissingExports, events, pc, run, modules, mi,
                 removedLog, cleanAfterRun, collector>>

\* m is named 'default': continue.
SkipDefault ==
  /\ InLoopBody
  /\ IsDefaultExport(CurSym)
  /\ MarkTried
  /\ UNCHANGED <<treeVars, knownPrograms, activeProgram, internalContext,
                 nsLog, convLog, regLog, symbolOf>>

\* A reflection of m's name exists and a module owns it: register m.
AliasExisting ==
  /\ InLoopBody
  /\ ~IsDefaultExport(CurSym)
  /\ LET ref == findReflectionByName(reflections, SymName(CurSym))
     IN /\ ref # 0
        /\ LET modCtx == getModule(reflections, modules, ref)
           IN /\ modCtx # 0
              /\ symbolMap' = RegisterSymbol(symbolMap, CurSym, ref)
              /\ symbolOf' = RegisterReflection(symbolOf, CurSym, ref)
              /\ regLog' = Append(regLog, [run |-> run, mod |-> CurMod,
                                           scope |-> modCtx, sym |-> CurSym,
                                           ref |-> ref])
  /\ MarkTried
  /\ UNCHANGED <<reflections, nextId, knownPrograms, activeProgram,
                 internalContext, nsLog, convLog>>

\* Variant of DropUnowned: an unowned reflection falls through to synthesis.
SynthesizeUnowned ==
  /\ InLoopBody
  /\ ~IsDefaultExport(CurSym)
  /\ LET ref == findReflectionByName(reflections, SymName(CurSym))
     IN /\ ref # 0
        /\ getModule(reflections, modules, ref) = 0
  /\ ~noMissingExports
  /\ LET c == createInternalContext(Ctx, CurMod, 118)
         refl2 == ConvertSymbol(c.refl, c.nextId, c.ic, CurSym)
     IN IF c.threw
        THEN /\ Abort(c)
             /\ tried' = tried \cup {CurSym}
        ELSE /\ reflections' = refl2
             /\ nextId' = c.nextId + 1 + Len(SymRefs(CurSym))
             /\ symbolMap' = RegisterSymbol(symbolMap, CurSym, c.nextId)
             /\ symbolOf' = RegisterReflection(symbolOf, CurSym, c.nextId)
             /\ knownPrograms' = CreateDeclarationHook(c.kp, refl2, c.ic, c.active)
             /\ activeProgram' = c.active
             /\ internalContext' = c.ic
             /\ nsLog' = c.nsLog
             /\ convLog' = Append(convLog, [run |-> run, mod |-> CurMod,
                                            sym |-> CurSym, ns |-> c.ic,
                                            program |-> c.active])
             /\ MarkTried
             /\ UNCHANGED regLog

\* A reflection of m's name exists but no module owns it: continue.
DropUnowned ==
  /\ InLoopBody
  /\ ~IsDefaultExport(CurSym)
  /\ LET ref == findReflectionByName(reflections, SymName(CurSym))
     IN /\ ref # 0
        /\ getModule(reflections, modules, ref) = 0
  /\ MarkTried
  /\ UNCHANGED <<treeVars, knownPrograms, activeProgram, internalContext,
                 nsLog, convLog, regLog, symbolOf>>

\* No reflection of m's name and noMissingExports is set: continue.
SkipNoSynthesis ==
  /\ InLoopBody
  /\ ~IsDefaultExport(CurSym)
  /\ findReflectionByName(reflections, SymName(CurSym)) = 0
  /\ noMissingExports
  /\ MarkTried
  /\ UNCHANGED <<treeVars, knownPrograms, activeProgram, internalContext,
                 nsLog, convLog, regLog, symbolOf>>

\* No reflection of m's name: convert m inside the internal namespace.
Synthesize ==
  /\ InLoopBody
  /\ ~IsDefaultExport(CurSym)
  /\ findReflectionByName(reflections, SymName(CurSym)) = 0
  /\ ~noMissingExports
  /\ LET c == createInternalContext(Ctx, CurMod, 118)
         refl2 == ConvertSymbol(c.refl, c.nextId, c.ic, CurSym)
     IN IF c.threw
        THEN /\ Abort(c)
             /\ tried' = tried \cup {CurSym}
        ELSE /\ reflections' = refl2
             /\ nextId' = c.nextId + 1 + Len(SymRefs(CurSym))
             /\ symbolMap' = RegisterSymbol(symbolMap, CurSym, c.nextId)
             /\ symbolOf' = RegisterReflection(symbolOf, CurSym, c.nextId)
             /\ knownPrograms' = CreateDeclarationHook(c.kp, refl2, c.ic, c.active)
             /\ activeProgram' = c.active
             /\ internalContext' = c.ic
             /\ nsLog' = c.nsLog
             /\ convLog' = Append(convLog, [run |-> run, mod |-> CurMod,
                                            sym |-> CurSym, ns |-> c.ic,
                                            program |-> c.active])
             /\ MarkTried
             /\ UNCHANGED regLog

\* The end of the do body: re-collect over the internal namespace unless
\* noMissingExports, subtract 'tried', and test the loop condition.
EndRound ==
  /\ pc = "round"
  /\ idx > Len(missing)
  /\ LET c == IF ~noMissingExports
              THEN createInternalContext(Ctx, CurMod, 124)
              ELSE Ctx
         ms == IF ~noMissingExports
               THEN discoverMissingExports(c.refl, symbolMap, c.ic)
               ELSE missing
         rest == SubtractTried(ms, tried)
     IN IF c.threw
        THEN /\ Abort(c)
             /\ UNCHANGED tried
        ELSE /\ reflections' = c.refl
             /\ nextId' = c.nextId
             /\ knownPrograms' = c.kp
             /\ activeProgram' = c.active
             /\ internalContext' = c.ic
             /\ nsLog' = c.nsLog
             /\ missing' = rest
             /\ idx' = 1
             /\ pc' = IF Len(rest) > 0 THEN "round" ELSE "prune"
             /\ UNCHANGED <<symbolMap, noMissingExports, events, run, modules,
                            mi, tried, convLog, regLog, removedLog,
                            cleanAfterRun, collector, symbolOf>>

\* After the do/while: obtain the namespace, remove it when it has no
\* children, clear the active program, and move to the next module.
FinishModule ==
  /\ pc = "prune"
  /\ LET c == createInternalContext(Ctx, CurMod, 133)
         prune == ShouldPrune(c.refl, c.ic)
     IN IF c.threw
        THEN /\ Abort(c)
             /\ UNCHANGED tried
        ELSE /\ reflections' = IF prune THEN RemoveReflection(c.refl, c.ic)
                               ELSE c.refl
             /\ symbolMap' = IF prune
                             THEN RemoveBindings(c.refl, symbolMap, symbolOf, c.ic)
                             ELSE symbolMap
             /\ symbolOf' = IF prune THEN ForgetSymbols(c.refl, symbolOf, c.ic)
                            ELSE symbolOf
             /\ removedLog' = IF prune
                              THEN Append(removedLog, [run |-> run, mod |-> CurMod,
                                                       id |-> c.ic])
                              ELSE removedLog
             /\ nextId' = c.nextId
             /\ knownPrograms' = c.kp
             /\ nsLog' = c.nsLog
             /\ activeProgram' = NoProgram
             /\ internalContext' = 0
             /\ mi' = mi + 1
             /\ pc' = "module"
             /\ UNCHANGED <<noMissingExports, events, run, modules, missing,
                            idx, tried, convLog, regLog, cleanAfterRun, collector>>

\* After the last module: knownPrograms.clear() and return.
Finish ==
  /\ pc = "module"
  /\ mi > Len(modules)
  /\ knownPrograms' = <<>>
  /\ pc' = "done"
  /\ cleanAfterRun' =
       \A k \in 1..Len(modules) :
         discoverMissingExports(reflections, symbolMap, modules[k]) = <<>>
  /\ UNCHANGED <<treeVars, activeProgram, noMissingExports, events, run,
                 modules, mi, loopVars, logVars, collector, symbolOf>>

Next ==
  \/ OnCreateDeclaration
  \/ ResolveBegin
  \/ SkipModule
  \/ EnterModule
  \/ SkipDefault
  \/ AliasExisting
  \/ DropUnowned
  \/ SkipNoSynthesis
  \/ Synthesize
  \/ EndRound
  \/ FinishModule
  \/ Finish

Spec == Init /\ [][Next]_vars

(* ------------------ the Collector, statement by statement -------------- *)

\* Bindings the Collector is run under: those of the converted project, and
\* those with the symbol of N bound to interface N as well.
BindingChoices ==
  {InitialSymbolMap, [InitialSymbolMap EXCEPT !["sN"] = 42]}

\* Roots the Collector is called on: the project, modules, namespaces and
\* functions.
CollectorRoots(refl) ==
  {i \in DOMAIN refl :
     refl[i].kind \in {"Project", "Module", "Namespace", "Function"}}

\* const missing = new Set(); const queue = []; let current = root;
FreshLocals(c, root) ==
  [c EXCEPT !.phase = "loop", !.root = root, !.current = root,
            !.queue = <<>>, !.missing = <<>>]

\* Variant of TreeAfterIteration: 'queue' is the children array itself, not
\* a copy of its elements, so queue.shift() drains the tree's array.
ConsumeChildren(refl, current) ==
  [refl EXCEPT ![current].children = <<>>]

\* The tree after one iteration of the do/while: the body reads fields of
\* 'current', pushes copies of array elements onto 'queue' (spread) and adds
\* to 'missing'; shift() takes from 'queue'.  Nothing of the tree is
\* assigned.
TreeAfterIteration(refl, current) == refl

\* The converted project, some bindings and a root, before any call.
CollectorInit ==
  /\ \E withModules \in BOOLEAN :
       \E refsA \in RefSeqs(MaxRefs) :
         \E refsB \in RefSeqs(MaxRefs) :
           /\ Len(refsA) + Len(refsB) <= MaxRefs
           /\ withModules \/ refsB = <<>>
           /\ reflections = InitialTree(withModules, refsA, refsB)
           /\ events = InitialEvents(withModules)
  /\ symbolMap \in BindingChoices
  /\ symbolOf = RegisteredSymbols(symbolMap)
  /\ \E root \in CollectorRoots(reflections) :
       collector = [IdleCollector EXCEPT !.root = root]
  /\ nextId = FirstFreeId
  /\ knownPrograms = <<>>
  /\ activeProgram = NoProgram
  /\ noMissingExports = FALSE
  /\ pc = "convert"
  /\ run = 0
  /\ modules = <<>>
  /\ mi = 0
  /\ missing = <<>>
  /\ idx = 0
  /\ tried = {}
  /\ internalContext = 0
  /\ nsLog = <<>>
  /\ convLog = <<>>
  /\ regLog = <<>>
  /\ removedLog = <<>>
  /\ cleanAfterRun = FALSE

\* What a Collector step leaves alone besides the tree and the bindings.
driverVars ==
  <<nextId, knownPrograms, activeProgram, noMissingExports, events, pc, run,
    modules, mi, missing, idx, tried, internalContext, nsLog, convLog, regLog,
    removedLog, cleanAfterRun, symbolOf>>

\* discoverMissingExports(root) is called: fresh locals.  Two calls are
\* made on the same root.
CollectCall ==
  /\ collector.phase = "idle"
  /\ Len(collector.results) < 2
  /\ collector' = FreshLocals(collector, collector.root)
  /\ UNCHANGED <<reflections, symbolMap, driverVars>>

\* One iteration of do { ... } while ((current = queue.shift())).
CollectIterate ==
  /\ collector.phase = "loop"
  /\ LET after == RunSteps(reflections, symbolMap,
                           StepsFor(reflections[collector.current]),
                           [queue |-> collector.queue,
                            missing |-> collector.missing])
     IN collector' =
          IF after.queue = <<>>
          THEN [collector EXCEPT !.phase = "return", !.current = 0,
                                 !.queue = <<>>, !.missing = after.missing]
          ELSE [collector EXCEPT !.current = Head(after.queue),
                                 !.queue = Tail(after.queue),
                                 !.missing = after.missing]
  /\ reflections' = TreeAfterIteration(reflections, collector.current)
  /\ UNCHANGED <<symbolMap, driverVars>>

\* return missing;
CollectReturn ==
  /\ collector.phase = "return"
  /\ collector' = [collector EXCEPT
                     !.phase = "idle",
                     !.results = Append(@, collector.missing)]
  /\ UNCHANGED <<reflections, symbolMap, driverVars>>

CollectorNext ==
  \/ CollectCall
  \/ CollectIterate
  \/ CollectReturn

CollectorSpec == CollectorInit /\ [][CollectorNext]_vars

(* ------------------------------ properties ----------------------------- *)

\* The Collector's result for the module at position k of 'modules'.
MissingOf(k) == discoverMissingExports(reflections, symbolMap, modules[k])

\* History entries of the current run for module 'mod'.
NsCreatedFor(r, mod) == {k \in 1..Len(nsLog) : nsLog[k].run = r /\ nsLog[k].mod = mod}

\* Variant of the do/while of one module's pass: twice the number of
\* symbols not yet tried, plus one while the round's for-of loop is over.
LoopRank ==
  2 * Cardinality(Symbols \ tried) + (IF idx <= Len(missing) THEN 0 ELSE 1)

RankBase == 2 * Cardinality(Symbols) + 4

\* Variant of a whole Driver run: modules still to visit, then the position
\* inside the current module's pass.
DriverRank ==
  (Len(modules) + 1 - mi) * RankBase
    + (CASE pc = "module" -> RankBase - 1
         [] pc = "round" -> 1 + LoopRank
         [] OTHER -> 0)

\* C1 (termination): within a module's pass 'tried' never shrinks, when a
\* round's for-of loop is over every candidate of the round is in 'tried',
\* and every step of a Driver run either leaves onResolveBegin (by its
\* return, or by the exception of a namespace creation made with no program
\* recorded) or strictly decreases a natural-number variant bounded by the
\* number of modules and of distinct symbols, so the do/while and the run
\* are finite.
C1_Termination ==
  [][/\ pc = "round" => tried \subseteq tried'
     /\ (pc = "round" /\ idx > Len(missing)) => Range(missing) \subseteq tried
     /\ pc \in {"module", "round", "prune"}
          => /\ DriverRank >= 0
             /\ pc' \in {"done", "failed"} \/ DriverRank' < DriverRank]_vars

\* A run that needed several rounds for one module has ended.
C1_Witness == pc = "done" /\ Cardinality(tried) >= 3 /\ Len(convLog) >= 2

\* C2 (no duplication): processing a missing symbol whose name the
\* project-wide lookup finds creates no reflection and converts nothing;
\* at most the symbol itself becomes bound, to the reflection found.
C2_NoDuplication ==
  [][(InLoopBody /\ findReflectionByName(reflections, SymName(CurSym)) # 0)
       => /\ reflections' = reflections
          /\ nextId' = nextId
          /\ convLog' = convLog
          /\ nsLog' = nsLog
          /\ \A s \in Symbols :
               symbolMap'[s] # symbolMap[s]
                 => /\ s = CurSym
                    /\ symbolMap'[s] = findReflectionByName(reflections, SymName(s))]_vars

\* A missing symbol has been bound to the existing reflection of its name,
\* and another one, found but unowned, has been passed over.
C2_Witness ==
  /\ \E k \in 1..Len(regLog) : symbolMap[regLog[k].sym] = regLog[k].ref
  /\ \E s \in tried :
       /\ symbolMap[s] = 0
       /\ ~IsDefaultExport(s)
       /\ findReflectionByName(reflections, SymName(s)) # 0
  /\ ~noMissingExports

\* C3 (namespace hygiene): between module passes and after the run, every
\* namespace the Driver created and that is still in the tree has children.
C3_NamespaceHygiene ==
  pc \in {"module", "done"}
    => \A k \in 1..Len(nsLog) :
         nsLog[k].ns \in DOMAIN reflections
           => Len(reflections[nsLog[k].ns].children) > 0

\* A module whose missing symbols were all aliased has been finished: its
\* namespace was created and is no longer in the tree.
C3_Witness ==
  /\ pc = "module"
  /\ mi = 2
  /\ convLog = <<>>
  /\ \E k \in 1..Len(regLog) : regLog[k].mod = modules[1]
  /\ \E k \in 1..Len(nsLog) :
       nsLog[k].mod = modules[1] /\ nsLog[k].ns \notin DOMAIN reflections

\* C4 (default exclusion): a symbol named 'default' is never passed to
\* registerReflection or convertSymbol and is never bound.
C4_DefaultExclusion ==
  \A s \in Symbols :
    SymName(s) = "default"
      => /\ symbolMap[s] = 0
         /\ \A k \in 1..Len(regLog) : regLog[k].sym # s
         /\ \A k \in 1..Len(convLog) : convLog[k].sym # s

\* A symbol named 'default' has been processed in a pass with synthesis on.
C4_Witness ==
  /\ pc = "prune"
  /\ ~noMissingExports
  /\ \E s \in tried : SymName(s) = "default"

\* C5 as stated (idempotence over any tree a first run leaves): from the
\* second run on no step changes the tree, the bindings or the histories of
\* created, converted, registered and removed reflections, and the Collector
\* is empty for every module the run visits.
C5_AnyTree ==
  [][run >= 2
       => /\ UNCHANGED <<treeVars, logVars>>
          /\ (pc = "module" /\ mi <= Len(modules)) => MissingOf(mi) = <<>>]_vars

\* C5 (idempotence, amended): when the previous run returned with the
\* Collector empty for every module, a further run changes nothing and finds
\* zero missing symbols for every module.
C5_Idempotence ==
  [][(run >= 2 /\ cleanAfterRun)
       => /\ UNCHANGED <<treeVars, logVars>>
          /\ (pc = "module" /\ mi <= Len(modules)) => MissingOf(mi) = <<>>]_vars

\* A second run has returned over a tree the first run resolved completely,
\* by synthesis and by aliasing.
C5_Witness ==
  /\ run = 2
  /\ pc = "done"
  /\ cleanAfterRun
  /\ \E k \in 1..Len(convLog) : convLog[k].run = 1
  /\ \E k \in 1..Len(regLog) : regLog[k].run = 1

\* The module references a symbol that is not named 'default' and whose name
\* no reflection bears.
ReferencesUndocumented(mod) ==
  \E s \in Range(discoverMissingExports(reflections, symbolMap, mod)) :
    ~IsDefaultExport(s) /\ findReflectionByName(reflections, SymName(s)) = 0

\* C6 as stated: with noMissingExports set nothing is ever converted, and no
\* namespace is ever created for a module that references an undocumented
\* symbol.
C6_NoNamespaceWhenDisabled ==
  noMissingExports
    => /\ convLog = <<>>
       /\ \A k \in 1..Len(nsLog) : ~ReferencesUndocumented(nsLog[k].mod)

\* C7 as stated (lazy creation): with synthesis enabled, every namespace the
\* Driver has created has had a symbol converted into it.
C7_LazyCreation ==
  ~noMissingExports
    => \A k \in 1..Len(nsLog) :
         \E j \in 1..Len(convLog) : convLog[j].ns = nsLog[k].ns

\* C8 (created at most once): a run creates at most one namespace per
\* module, and the memoised internalContext is that namespace.
C8_CreatedOnce ==
  /\ \A i, j \in 1..Len(nsLog) :
       (nsLog[i].run = nsLog[j].run /\ nsLog[i].mod = nsLog[j].mod) => i = j
  /\ internalContext # 0
       => \E k \in NsCreatedFor(run, CurMod) : nsLog[k].ns = internalContext

\* A pass that called createInternalContext before two conversions, after
\* at least two rounds and before pruning has ended with one namespace.
C8_Witness ==
  /\ pc = "module"
  /\ mi = 2
  /\ run = 1
  /\ Cardinality({j \in 1..Len(convLog) : convLog[j].mod = modules[1]}) >= 2
  /\ Cardinality(NsCreatedFor(1, modules[1])) = 1

\* C9 (tried-once guard): the candidates a round still has to process are
\* pairwise distinct and none of them is in 'tried'.
C9_TriedOnce ==
  pc = "round"
    => /\ \A k \in idx..Len(missing) : missing[k] \notin tried
       /\ \A i, j \in 1..Len(missing) : missing[i] = missing[j] => i = j

\* A later round is under way while the Collector, run over the internal
\* namespace, still returns a symbol that was tried in an earlier round.
C9_Witness ==
  /\ InLoopBody
  /\ internalContext # 0
  /\ Range(discoverMissingExports(reflections, symbolMap, internalContext))
       \cap tried # {}

\* C10 (empty module skipped): when the Collector returns the empty set for
\* the module the for-of loop is at, the step taken changes neither the tree
\* nor the bindings nor the active program, creates, converts, registers and
\* removes nothing, and moves on to the next module.
C10_SkipEmpty ==
  [][(pc = "module" /\ mi <= Len(modules) /\ MissingOf(mi) = <<>>)
       => /\ UNCHANGED <<treeVars, activeProgram, logVars, internalContext>>
          /\ mi' = mi + 1
          /\ pc' = "module"]_vars

\* The first module had nothing missing and was passed over while the
\* second one still has missing symbols to resolve.
C10_Witness ==
  /\ pc = "module"
  /\ run = 1
  /\ mi = 2
  /\ Len(modules) = 2
  /\ NsCreatedFor(1, modules[1]) = {}
  /\ MissingOf(1) = <<>>
  /\ MissingOf(2) # <<>>

\* Symbols a type value refers to, resolved or not.
RECURSIVE TypeSyms(_)
TypeSyms(t) ==
  CASE t.tag = "reference" -> {t.sym}
    [] t.tag = "array" -> TypeSyms(t.elem)
    [] OTHER -> {}

\* Symbols referred to by the visited type fields of the reflections 'ids'.
SymsReferencedIn(refl, ids) ==
  UNION {TypeSyms(refl[i].type) \cup TypeSyms(refl[i].overwrites)
           \cup TypeSyms(refl[i].inheritedFrom)
           \cup TypeSyms(refl[i].implementationOf)
           \cup TypeSyms(refl[i].default)
           \cup UNION {TypeSyms(refl[i].extendedTypes[k]) :
                         k \in 1..Len(refl[i].extendedTypes)}
           \cup UNION {TypeSyms(refl[i].implementedTypes[k]) :
                         k \in 1..Len(refl[i].implementedTypes)} : i \in ids}

\* Symbols referenced from within the current module's internal namespace.
NsRefs == SymsReferencedIn(reflections, Subtree(reflections, {internalContext}))

\* Reflections created by the conversion pipeline, before the Driver ran.
Converted == {i \in DOMAIN reflections : i < FirstFreeId}

\* The symbol had no binding and no reflection of its name after conversion.
UndocumentedAtConversion(s) ==
  /\ InitialSymbolMap[s] = 0
  /\ \A i \in Converted : reflections[i].name # SymName(s)

\* The symbol was converted during the current module's pass.
SynthesizedHere(s) ==
  \E k \in 1..Len(convLog) :
    /\ convLog[k].sym = s
    /\ convLog[k].run = run
    /\ convLog[k].mod = CurMod
    /\ convLog[k].ns = internalContext

\* C11 as stated: when a module's loop exits with synthesis enabled, every
\* symbol referenced from within the internal namespace that had no
\* documented entity after conversion (and is not the default export) has
\* been synthesized into that namespace, unless it was bound elsewhere.
C11_AnyUndocumented ==
  (pc = "prune" /\ ~noMissingExports)
    => \A s \in NsRefs :
         (/\ UndocumentedAtConversion(s)
          /\ ~IsDefaultExport(s)
          /\ ~SynthesizedHere(s))
           => symbolMap[s] # 0

\* C11 (transitive synthesis, amended): with synthesis enabled, a symbol
\* referenced from within the internal namespace that is not named 'default'
\* and whose name no reflection bears when it is processed is converted into
\* that same namespace; when the loop exits every unresolved symbol the
\* namespace references has been tried, and each of them is named 'default'
\* or has a reflection of its name in the project.
C11_TransitiveSynthesis ==
  [][/\ (/\ InLoopBody
         /\ ~noMissingExports
         /\ internalContext # 0
         /\ CurSym \in NsRefs
         /\ ~IsDefaultExport(CurSym)
         /\ findReflectionByName(reflections, SymName(CurSym)) = 0)
          => /\ internalContext' = internalContext
             /\ symbolMap'[CurSym] \in DOMAIN reflections'
             /\ reflections'[symbolMap'[CurSym]].parent = internalContext
             /\ Len(convLog') = Len(convLog) + 1
             /\ convLog'[Len(convLog')].sym = CurSym
             /\ convLog'[Len(convLog')].ns = internalContext
     /\ (pc = "prune" /\ ~noMissingExports)
          => /\ Range(discoverMissingExports(reflections, symbolMap,
                                             internalContext)) \subseteq tried
             /\ \A s \in NsRefs :
                  symbolMap[s] = 0
                    => \/ IsDefaultExport(s)
                       \/ findReflectionByName(reflections, SymName(s)) # 0]_vars

\* U was synthesized, then V, which only U's declaration references, was
\* discovered and synthesized into the same namespace; the loop has exited.
C11_Witness ==
  /\ pc = "prune"
  /\ ~noMissingExports
  /\ "sV" \notin SymsReferencedIn(reflections, Converted)
  /\ SynthesizedHere("sU")
  /\ SynthesizedHere("sV")
  /\ "sV" \in NsRefs
  /\ \E j, k \in 1..Len(convLog) :
       j < k /\ convLog[j].sym = "sU" /\ convLog[k].sym = "sV"

\* C12: every registration of a symbol found by name is made under the scope
\* of the module being processed, never under another module's scope.
C12_CurrentScope ==
  \A k \in 1..Len(regLog) : regLog[k].scope = regLog[k].mod

\* Type values the Collector visits on a reflection, by class.
VisitedTypes(r) ==
  (IF IsDeclaration(r)
   THEN {r.type, r.overwrites, r.inheritedFrom, r.implementationOf}
          \cup Range(r.extendedTypes) \cup Range(r.implementedTypes)
   ELSE {})
  \cup (IF IsSignature(r)
        THEN {r.type, r.overwrites, r.inheritedFrom, r.implementationOf}
        ELSE {})
  \cup (IF IsParameter(r) THEN {r.type} ELSE {})
  \cup (IF IsTypeParameter(r) THEN {r.type, r.default} ELSE {})

\* Reflections the Collector enqueues from a reflection's own fields.
Linked(r) ==
  (IF IsContainer(r) THEN Range(r.children) ELSE {})
  \cup (IF IsDeclaration(r)
        THEN Range(r.typeParameters) \cup Range(r.signatures)
               \cup Range(r.indexSignature) \cup Range(r.getSignature)
               \cup Range(r.setSignature)
        ELSE {})
  \cup (IF IsSignature(r)
        THEN Range(r.parameters) \cup Range(r.typeParameters)
        ELSE {})

\* Declarations wrapped by the inline-reflection types inside a type value.
RECURSIVE InlineDecls(_)
InlineDecls(t) ==
  CASE t.tag = "reflection" -> {t.decl}
    [] t.tag = "array" -> InlineDecls(t.elem)
    [] OTHER -> {}

\* Symbols of the references inside a type value that resolve to nothing.
RECURSIVE UnresolvedSyms(_, _, _)
UnresolvedSyms(refl, smap, t) ==
  CASE t.tag = "reference" ->
         IF TypeReflection(refl, smap, t) = 0 THEN {t.sym} ELSE {}
    [] t.tag = "array" -> UnresolvedSyms(refl, smap, t.elem)
    [] OTHER -> {}

\* Reflections reachable from 'ids' through children, type parameters,
\* signatures, parameters and inline-reflection types.
RECURSIVE Reachable(_, _)
Reachable(refl, ids) ==
  LET more == UNION {Linked(refl[i])
                       \cup UNION {InlineDecls(t) : t \in VisitedTypes(refl[i])} :
                     i \in ids} \ ids
  IN IF more = {} THEN ids ELSE Reachable(refl, ids \cup more)

\* Symbols of the unresolved references reachable from 'root'.
ReachableUnresolved(refl, smap, root) ==
  UNION {UNION {UnresolvedSyms(refl, smap, t) : t \in VisitedTypes(refl[i])} :
         i \in Reachable(refl, {root})}

\* Symbols referred to by the back references of the reflections reachable
\* from 'root'.
BackEdgeSyms(refl, root) ==
  UNION {UNION {TypeSyms(t) : t \in Range(refl[i].extendedBy)
                                   \cup Range(refl[i].implementedBy)} :
         i \in Reachable(refl, {root})}

\* A sequence that lists no element twice.
NoDuplicates(q) == \A i, j \in 1..Len(q) : i # j => q[i] # q[j]

C14_ExactlyReachableUnresolved ==
  \A root \in DOMAIN reflections :
    Range(discoverMissingExports(reflections, symbolMap, root))
      = ReachableUnresolved(reflections, symbolMap, root)

\* The module being processed was collected: its set holds a symbol reached
\* through an inline object type and one a parameter refers to, the
\* resolved return type's symbol and the symbol only back-referenced from
\* the project's interface T are left out.
C14_Witness ==
  /\ pc = "round"
  /\ idx = 1
  /\ tried = {}
  /\ Len(missing) = 2
  /\ \E i, j \in Reachable(reflections, {CurMod}) :
       /\ reflections[i].type.tag = "reflection"
       /\ reflections[j].type.tag = "reference"
       /\ IsParameter(reflections[j])
       /\ ReachableUnresolved(reflections, symbolMap, reflections[i].type.decl)
            \subseteq Range(missing)
       /\ ReachableUnresolved(reflections, symbolMap, reflections[i].type.decl) # {}
       /\ TypeSyms(reflections[j].type) \subseteq Range(missing)
  /\ "sTB" \notin Range(missing)
  /\ "sV" \in BackEdgeSyms(reflections, 1)
  /\ "sV" \notin Range(discoverMissingExports(reflections, symbolMap, 1))
  /\ symbolMap["sV"] = 0

\* No module has the reflection as a direct child of the reflection's kind.
NoOwner(ref) ==
  \A k \in 1..Len(modules) :
    \A d \in Range(reflections[modules[k]].children) :
      ~(reflections[d].kind = reflections[ref].kind /\ d = ref)

\* C15 (ownership miss): when the name lookup finds a reflection that no
\* module has as a direct child of the same kind, the step registers
\* nothing, converts nothing, leaves the tree and the bindings alone, and
\* still marks the symbol as tried.
C15_OwnershipMiss ==
  [][(/\ InLoopBody
      /\ ~IsDefaultExport(CurSym)
      /\ findReflectionByName(reflections, SymName(CurSym)) # 0
      /\ NoOwner(findReflectionByName(reflections, SymName(CurSym))))
       => /\ regLog' = regLog
          /\ convLog' = convLog
          /\ nsLog' = nsLog
          /\ UNCHANGED treeVars
          /\ CurSym \in tried'
          /\ idx' = idx + 1]_vars

\* The symbol of N, an interface nested in a documented namespace, was the
\* last symbol processed: it is tried, unbound, and in neither log.
C15_Witness ==
  /\ pc = "round"
  /\ idx > 1
  /\ idx - 1 <= Len(missing)
  /\ missing[idx - 1] = "sN"
  /\ "sN" \in tried
  /\ symbolMap["sN"] = 0
  /\ findReflectionByName(reflections, "N") = 42
  /\ NoOwner(42)
  /\ \A k \in 1..Len(regLog) : regLog[k].sym # "sN"
  /\ \A k \in 1..Len(convLog) : convLog[k].sym # "sN"

\* C16 (active-context discipline): every conversion made for a module ran
\* with the program the creation hook recorded for that module as the
\* active program; no active program is set when a module's processing
\* starts nor after the run, and knownPrograms is empty after the run.
C16_ActiveProgram ==
  /\ \A k \in 1..Len(convLog) :
       /\ convLog[k].program = ProgramOf(convLog[k].mod)
       /\ convLog[k].program # NoProgram
  /\ pc = "module" => activeProgram = NoProgram
  /\ pc = "done" => (activeProgram = NoProgram /\ knownPrograms = <<>>)

\* The Driver has returned after synthesizing a symbol for module B under
\* B's program: no program is active and knownPrograms is empty.
C16_Witness ==
  /\ pc = "done"
  /\ \E k \in 1..Len(convLog) :
       convLog[k].mod = 3 /\ convLog[k].program = "progB"
  /\ activeProgram = NoProgram
  /\ knownPrograms = <<>>

\* C17: a step removes a reflection only at the end of a module's pass, and
\* then only the internal namespace the Driver created for that module in
\* this run, and only when it has no children; reflections of the
\* conversion pipeline are never removed.
C17_RemovesOnlyOwnEmptyNamespace ==
  [][/\ \A i \in DOMAIN reflections \ DOMAIN reflections' :
          /\ pc = "prune"
          /\ i = internalContext
          /\ i >= FirstFreeId
          /\ reflections[i].kind = "Namespace"
          /\ reflections[i].name = internalNamespace
          /\ reflections[i].parent = CurMod
          /\ reflections[i].children = <<>>
          /\ \E k \in 1..Len(nsLog) :
               nsLog[k].ns = i /\ nsLog[k].run = run /\ nsLog[k].mod = CurMod
     /\ \A i \in Converted : i \in DOMAIN reflections'
     /\ \A k \in 1..Len(removedLog') :
          /\ removedLog'[k].id >= FirstFreeId
          /\ \E j \in 1..Len(nsLog') :
               /\ nsLog'[j].ns = removedLog'[k].id
               /\ nsLog'[j].run = removedLog'[k].run
               /\ nsLog'[j].mod = removedLog'[k].mod]_vars

\* One module's empty namespace has been removed and another module's
\* namespace, which holds a synthesized declaration, has been kept.
C17_Witness ==
  /\ pc = "done"
  /\ \E k \in 1..Len(removedLog) : removedLog[k].id \notin DOMAIN reflections
  /\ \E k \in 1..Len(nsLog) :
       /\ nsLog[k].ns \in DOMAIN reflections
       /\ reflections[nsLog[k].ns].children # <<>>
  /\ \A i \in 1..FirstFreeId - 1 :
       i \in DOMAIN InitialTree(TRUE, <<>>, <<>>) => i \in DOMAIN reflections

\* The project's direct children of kind Module, in child order.
TopLevelModules ==
  SelectSeq(reflections[1].children, LAMBDA c : reflections[c].kind = "Module")

\* Position of a module in the sequence the Driver iterates over.
ModulePos(m) == CHOOSE k \in 1..Len(modules) : modules[k] = m

\* The namespaces of one run were created for modules in iteration order.
VisitedInOrder ==
  \A j, k \in 1..Len(nsLog) :
    (j < k /\ nsLog[j].run = nsLog[k].run)
      => ModulePos(nsLog[j].mod) < ModulePos(nsLog[k].mod)

\* C18: once the Driver has started, the modules it visits are the project
\* root alone when the project has no child of kind Module, and otherwise
\* exactly the top-level module children in order, without the project
\* root; the visit advances one module at a time, so each is processed once
\* and in order.
C18_ModuleSelection ==
  [][/\ pc' # "convert"
          => /\ modules' = IF TopLevelModules' = <<>> THEN <<1>>
                           ELSE TopLevelModules'
             /\ \A i, j \in 1..Len(modules') : i # j => modules'[i] # modules'[j]
             /\ (TopLevelModules' # <<>> => 1 \notin Range(modules'))
     /\ \/ mi' = mi
        \/ mi' = mi + 1 /\ pc \in {"module", "prune"} /\ mi <= Len(modules)
        \/ mi' = 1 /\ run' = run + 1
     /\ VisitedInOrder']_vars

\* A run over a project with modules A and B has ended: A was processed
\* first, then B, and the project root was not.
C18_Witness ==
  /\ pc = "done"
  /\ run = 1
  /\ modules = <<2, 3>>
  /\ mi = 3
  /\ \E j, k \in 1..Len(nsLog) :
       j < k /\ nsLog[j].mod = 2 /\ nsLog[k].mod = 3
  /\ \A k \in 1..Len(nsLog) : nsLog[k].mod # 1

\* C19: no two conversions ever made by the Driver are for the same symbol
\* or for symbols of the same name, and the declaration of every converted
\* symbol is found by the project-wide name lookup from then on.
C19_SynthesizedOnce ==
  /\ \A j, k \in 1..Len(convLog) :
       j # k => /\ convLog[j].sym # convLog[k].sym
                /\ SymName(convLog[j].sym) # SymName(convLog[k].sym)
  /\ \A k \in 1..Len(convLog) :
       /\ findReflectionByName(reflections, SymName(convLog[k].sym)) # 0
       /\ reflections[findReflectionByName(reflections,
                                           SymName(convLog[k].sym))].parent
            = convLog[k].ns

\* A symbol named U was synthesized; another symbol of the same name was
\* tried afterwards, by a later module, and was not converted.
C19_Witness ==
  /\ pc = "round"
  /\ mi = 2
  /\ \E k \in 1..Len(convLog) :
       /\ SymName(convLog[k].sym) = "U"
       /\ convLog[k].mod = modules[1]
       /\ \E s \in tried :
            /\ SymName(s) = "U"
            /\ s # convLog[k].sym
            /\ symbolMap[s] = 0
  /\ Cardinality({k \in 1..Len(convLog) : SymName(convLog[k].sym) = "U"}) = 1

====
